---- MODULE Spec2Model ----
(***************************************************************************)
(* Model of assemble() of src/assembler.ts: the directives-only pre-pass,  *)
(* the second parse, the CollectingLabels walk, the Encoding walk and the  *)
(* padding of the image.                                                   *)
(*                                                                         *)
(* A source file is a sequence of lines.  A line is given in tokenised     *)
(* form (the result of the slicing/trimming of Line.parse,                 *)
(* Operation.parse and parseStatement); numeric literals are kept as       *)
(* sequences of characters and are converted by ParseNumber.               *)
(* An optional value (undefined in the source) is a sequence of length 0   *)
(* or 1.                                                                   *)
(***************************************************************************)
EXTENDS Integers, Sequences, FiniteSets, TLC

VARIABLES
    src,           \* content, split into lines
    pc,            \* the position in assemble()
    i,             \* the loop index of the running _process (1-based)
    attrLines,     \* attributes.lines: the items of the directives-only parse
    attrOps,       \* attributes.ops
    supportedOps,  \* Array.from(attributes.ops.values())
    lines,         \* prog.lines: the items of the second parse
    ops,           \* prog.ops
    labels,        \* prog.labels
    instructions,  \* the instructions of the running _process
    unreachable,   \* the flag of the running _process
    warnings,      \* the line indexes passed to options.emitWarning
    out,           \* the text returned by emit(), line by line
    error,         \* the error thrown, if any
    sharedOps,     \* the module-level array defaultOps, as the calls find it
    pending,       \* the texts the caller will pass to assemble() next
    returned       \* what the earlier calls of assemble() gave back

vars == <<src, pc, i, attrLines, attrOps, supportedOps, lines, ops, labels,
          instructions, unreachable, warnings, out, error, sharedOps, pending,
          returned>>

\* Longest source file (in lines) the specifications draw.
MaxLines == 4

\* Number of words of the image (the padding loop of Program.emit).
ImageSize == 64

\* Largest data field and opcode the Instruction constructor lets through.
MaxData == 127
MaxOpcode == 15

-----------------------------------------------------------------------------
(* String.prototype.toUpperCase on the operation names the model uses.     *)
toUpperCase(s) ==
    CASE s = "call" -> "CALL"
      [] s = "Foo"  -> "FOO"
      [] s = "foo"  -> "FOO"
      [] s = "add"  -> "ADD"
      [] s = "b"    -> "B"
      [] OTHER      -> s

-----------------------------------------------------------------------------
(* A JavaScript Map: a sequence of [key, val] entries in insertion order.  *)
(* set() on an existing key keeps its position, delete() removes it.       *)
RECURSIVE MapIndexFrom(_, _, _)
MapIndexFrom(m, k, j) ==
    IF j > Len(m) THEN 0
    ELSE IF m[j].key = k THEN j
    ELSE MapIndexFrom(m, k, j + 1)

MapIndex(m, k) == MapIndexFrom(m, k, 1)

MapHas(m, k) == MapIndex(m, k) # 0

MapGet(m, k) ==
    IF MapIndex(m, k) = 0 THEN << >> ELSE << m[MapIndex(m, k)].val >>

MapSet(m, k, v) ==
    IF MapIndex(m, k) = 0
    THEN Append(m, [key |-> k, val |-> v])
    ELSE [m EXCEPT ![MapIndex(m, k)] = [key |-> k, val |-> v]]

RECURSIVE MapDelete(_, _)
MapDelete(m, k) ==
    IF m = << >> THEN << >>
    ELSE IF Head(m).key = k THEN Tail(m)
    ELSE << Head(m) >> \o MapDelete(Tail(m), k)

MapValues(m) == [j \in 1..Len(m) |-> m[j].val]

-----------------------------------------------------------------------------
(* Operation and its output descriptors.  inst is the identity of the      *)
(* object: the code compares operations with ===.                          *)
Out(opcode, useRegister, useData) ==
    [opcode |-> opcode, useRegister |-> useRegister, useData |-> useData]

Operation(op, reg, data, alwaysBranches, output, inst) ==
    [op |-> op, reg |-> reg, data |-> data, alwaysBranches |-> alwaysBranches,
     output |-> output, inst |-> inst]

(* The text of an @define line after tokenising: the name, the reg= and    *)
(* data= values, the unconditional-jump flag and the output list with its   *)
(* no-reg / no-data modifiers.                                              *)
DefOut(opcode, noReg, noData) ==
    [opcode |-> opcode, noReg |-> noReg, noData |-> noData]

OperationParse(d, inst) ==
    Operation(d.op, d.reg, d.data, d.jump,
              [j \in 1..Len(d.output) |->
                  Out(d.output[j].opcode, ~d.output[j].noReg, ~d.output[j].noData)],
              inst)

defaultOps ==
    << Operation("CALL",  "never",    "address", FALSE, << Out(0, TRUE, TRUE) >>, <<"default", 1>>),
       Operation("RET",   "never",    "none",    TRUE,  << Out(1, TRUE, TRUE) >>, <<"default", 2>>),
       Operation("BZ",    "always",   "address", FALSE, << Out(2, TRUE, TRUE) >>, <<"default", 3>>),
       Operation("B",     "never",    "address", TRUE,  << Out(3, TRUE, TRUE) >>, <<"default", 4>>),
       Operation("ADD",   "always",   "binary",  FALSE, << Out(4, TRUE, TRUE) >>, <<"default", 5>>),
       Operation("SUB",   "always",   "binary",  FALSE, << Out(5, TRUE, TRUE) >>, <<"default", 6>>),
       Operation("LD",    "always",   "binary",  FALSE, << Out(6, TRUE, TRUE) >>, <<"default", 7>>),
       Operation("IN",    "always",   "none",    FALSE, << Out(7, TRUE, TRUE) >>, <<"default", 8>>),
       Operation("OUT",   "always",   "none",    FALSE, << Out(8, TRUE, TRUE) >>, <<"default", 9>>),
       Operation("AND",   "always",   "binary",  FALSE, << Out(9, TRUE, TRUE) >>, <<"default", 10>>),
       Operation("WRITE", "optional", "binary",  FALSE,
                 << Out(6, TRUE, TRUE), Out(8, TRUE, FALSE) >>, <<"default", 11>>) >>

(* Program.setOps: new Map(ops.map(op => [op.op.toUpperCase(), op])).      *)
RECURSIVE MapFromOps(_, _)
MapFromOps(m, opsList) ==
    IF opsList = << >> THEN m
    ELSE MapFromOps(MapSet(m, toUpperCase(Head(opsList).op), Head(opsList)),
                    Tail(opsList))

setOps(opsList) == MapFromOps(<< >>, opsList)

-----------------------------------------------------------------------------
(* Number(text) and Number('0b' + text) on literals made of digits and an  *)
(* optional leading minus sign.  The result is << >> for NaN.              *)
DecDigits == <<"0", "1", "2", "3", "4", "5", "6", "7", "8", "9">>

RECURSIVE DigitIndex(_, _)
DigitIndex(c, j) ==
    IF j > Len(DecDigits) THEN 0
    ELSE IF DecDigits[j] = c THEN j
    ELSE DigitIndex(c, j + 1)

\* value of a digit character in the base, -1 when it is no digit of it
DigitValue(c, base) ==
    IF DigitIndex(c, 1) = 0 \/ DigitIndex(c, 1) > base THEN -1
    ELSE DigitIndex(c, 1) - 1

RECURSIVE DigitsValue(_, _, _)
DigitsValue(text, base, acc) ==
    IF text = << >> THEN << acc >>
    ELSE IF DigitValue(Head(text), base) < 0 THEN << >>
    ELSE DigitsValue(Tail(text), base, acc * base + DigitValue(Head(text), base))

ParseNumber(isBinary, text) ==
    IF isBinary
    THEN IF text = << >> THEN << >> ELSE DigitsValue(text, 2, 0)
    ELSE IF text = << >> THEN << 0 >>
    ELSE IF Head(text) = "-"
         THEN IF Tail(text) = << >> \/ DigitsValue(Tail(text), 10, 0) = << >>
              THEN << >>
              ELSE << 0 - DigitsValue(Tail(text), 10, 0)[1] >>
         ELSE DigitsValue(text, 10, 0)

-----------------------------------------------------------------------------
(* Instruction: the constructor's two range checks and toString.           *)
\* a constructor that has lost its check of the data field
InstructionErrorOpcodeOnly(opcode, data) ==
    IF opcode > MaxOpcode THEN << "OpcodeBits" >> ELSE << >>

InstructionError(opcode, data) ==
    IF data > MaxData THEN << "DataBits" >>
    ELSE IF opcode > MaxOpcode THEN << "OpcodeBits" >>
    ELSE << >>

Instruction(opcode, r1, data, comment) ==
    [opcode |-> opcode, r1 |-> r1, data |-> data, comment |-> comment]

(* a | b on two's complement integers (no 32 bit wrap occurs for the       *)
(* values an Instruction can hold).                                        *)
RECURSIVE BitOr(_, _)
BitOr(a, b) ==
    IF a = 0 THEN b
    ELSE IF b = 0 THEN a
    ELSE IF a = -1 \/ b = -1 THEN -1
    ELSE (IF a % 2 = 1 \/ b % 2 = 1 THEN 1 ELSE 0)
         + 2 * BitOr((a - (a % 2)) \div 2, (b - (b % 2)) \div 2)

HexDigits == <<"0", "1", "2", "3", "4", "5", "6", "7", "8", "9",
               "a", "b", "c", "d", "e", "f">>

\* Number.prototype.toString(16)
RECURSIVE NatToHex(_)
NatToHex(n) ==
    IF n < 16 THEN << HexDigits[n + 1] >>
    ELSE NatToHex(n \div 16) \o << HexDigits[(n % 16) + 1] >>

ToHex(n) == IF n < 0 THEN << "-" >> \o NatToHex(0 - n) ELSE NatToHex(n)

\* String.prototype.padStart(width, '0')
RECURSIVE PadStart(_, _)
PadStart(s, width) ==
    IF Len(s) >= width THEN s ELSE PadStart(<< "0" >> \o s, width)

\* a word whose opcode is shifted by 8 bits only
InstructionWordShift8(inst) ==
    BitOr(BitOr(inst.opcode * 256, (IF inst.r1 THEN 1 ELSE 0) * 256), inst.data)

\* a word whose register bit lies inside the data field
InstructionWordBit6(inst) ==
    BitOr(BitOr(inst.opcode * 512, (IF inst.r1 THEN 1 ELSE 0) * 64), inst.data)

InstructionWord(inst) ==
    BitOr(BitOr(inst.opcode * 512, (IF inst.r1 THEN 1 ELSE 0) * 256), inst.data)

\* the output line: the word's text, then ';', then the comment
InstructionToString(inst) ==
    [hex |-> PadStart(ToHex(InstructionWord(inst)), 4), comment |-> inst.comment]

-----------------------------------------------------------------------------
(* Source lines in tokenised form.                                         *)
Blank == [type |-> "blank"]
Lbl(name) == [type |-> "label", name |-> name]
\* a statement: operation name, optional register token, then either a
\* ':label' reference or the remaining text (a literal, spaces removed)
Stmt(op, reg, jump, text) ==
    [type |-> "statement", op |-> op, reg |-> reg, jump |-> jump, text |-> text]
Define(op, reg, data, jump, output) ==
    [type |-> "define", op |-> op, reg |-> reg, data |-> data, jump |-> jump,
     output |-> output]
NoDefaultOps == [type |-> "no_default_ops"]

(* The raw text that follows the code of a line: the markers "#" and "//"   *)
(* and the texts between them, in their order.  A line built without a     *)
(* tail has none.                                                          *)
WithTail(l, tail) == [tail |-> tail] @@ l

TailOf(l) == IF "tail" \in DOMAIN l THEN l.tail ELSE << >>

\* String.prototype.indexOf on a tail, 0 when the marker is absent
RECURSIVE IndexOfFrom(_, _, _)
IndexOfFrom(tail, marker, j) ==
    IF j > Len(tail) THEN 0
    ELSE IF tail[j] = marker THEN j
    ELSE IndexOfFrom(tail, marker, j + 1)

IndexOf(tail, marker) == IndexOfFrom(tail, marker, 1)

\* Line.parse: the secret comment, and the text left of it
SecretComment(l) ==
    IF IndexOf(TailOf(l), "#") = 0 THEN << >>
    ELSE << SubSeq(TailOf(l), IndexOf(TailOf(l), "#") + 1, Len(TailOf(l))) >>

BeforeSecret(l) ==
    IF IndexOf(TailOf(l), "#") = 0 THEN TailOf(l)
    ELSE SubSeq(TailOf(l), 1, IndexOf(TailOf(l), "#") - 1)

\* a public comment taken from the line before the secret comment is cut off
PublicCommentUncut(l) ==
    IF IndexOf(TailOf(l), "//") = 0 THEN << >>
    ELSE << SubSeq(TailOf(l), IndexOf(TailOf(l), "//") + 1, Len(TailOf(l))) >>

\* Line.parse: the public comment
PublicComment(l) ==
    IF IndexOf(BeforeSecret(l), "//") = 0 THEN << >>
    ELSE << SubSeq(BeforeSecret(l), IndexOf(BeforeSecret(l), "//") + 1,
                   Len(BeforeSecret(l))) >>

\* String.prototype.includes(' ') on the label names the model uses
includesSpace(name) == name \in {"a b"}

(* parseStatement: the register token, the jump label, and the literal     *)
(* read in base 2 when the first operation of supportedOps with the same   *)
(* uppercased name has data=binary.                                        *)
RECURSIVE expectsBinary(_, _)
expectsBinary(opsList, op) ==
    IF opsList = << >> THEN FALSE
    ELSE IF toUpperCase(Head(opsList).op) # toUpperCase(op)
         THEN expectsBinary(Tail(opsList), op)
    ELSE Head(opsList).data = "binary"

StatementItem(op, reg, data, jumpLabel) ==
    [type |-> "statement", op |-> op, reg |-> reg, data |-> data,
     jumpLabel |-> jumpLabel]

parseStatement(l, opsList) ==
    IF l.jump # << >>
    THEN IF includesSpace(l.jump[1])
         THEN [item |-> << >>, err |-> << "LabelSpace" >>]
         ELSE [item |-> << StatementItem(l.op, l.reg, << >>, l.jump) >>,
               err |-> << >>]
    ELSE IF l.text = << >>
    THEN [item |-> << StatementItem(l.op, l.reg, << >>, << >>) >>, err |-> << >>]
    ELSE IF ParseNumber(expectsBinary(opsList, l.op), l.text) = << >>
    THEN [item |-> << >>, err |-> << "NotANumber" >>]
    ELSE [item |-> << StatementItem(l.op, l.reg,
                          ParseNumber(expectsBinary(opsList, l.op), l.text),
                          << >>) >>,
          err |-> << >>]

(* Line.parse.  attributesOnly is options.parseItemTypes = {attribute:     *)
(* true}; inst is the identity given to an operation parsed from @define.  *)
LineParse(l, attributesOnly, opsList, inst) ==
    CASE l.type = "define" ->
            [item |-> << [type |-> "attribute",
                          op |-> << OperationParse(l, inst) >>,
                          no_default_ops |-> FALSE] >>,
             err |-> << >>]
      [] l.type = "no_default_ops" ->
            [item |-> << [type |-> "attribute", op |-> << >>,
                          no_default_ops |-> TRUE] >>,
             err |-> << >>]
      [] l.type = "label" ->
            IF attributesOnly THEN [item |-> << >>, err |-> << >>]
            ELSE IF includesSpace(l.name)
                 THEN [item |-> << >>, err |-> << "LabelSpace" >>]
            ELSE [item |-> << [type |-> "label", name |-> l.name] >>,
                  err |-> << >>]
      [] l.type = "statement" ->
            IF attributesOnly THEN [item |-> << >>, err |-> << >>]
            ELSE parseStatement(l, opsList)
      [] OTHER -> [item |-> << >>, err |-> << >>]

(* Program.parse: every line parsed in order, the first failing line       *)
(* aborts with a syntax error.                                             *)
ParsedItems(content, attributesOnly, opsList, who) ==
    [j \in 1..Len(content) |->
        LineParse(content[j], attributesOnly, opsList, << who, j >>).item]

RECURSIVE FirstSyntaxError(_, _, _, _)
FirstSyntaxError(content, attributesOnly, opsList, j) ==
    IF j > Len(content) THEN 0
    ELSE IF LineParse(content[j], attributesOnly, opsList, << "x", j >>).err # << >>
         THEN j
    ELSE FirstSyntaxError(content, attributesOnly, opsList, j + 1)

-----------------------------------------------------------------------------
(* Program._process, one iteration of its loop.  The walk's state is a     *)
(* record st: ops (this.ops), labels (this.labels: null, or the Map),      *)
(* lines (this.lines, the items), instructions, unreachable, warnings      *)
(* (the calls of options.emitWarning) and err (the error thrown).          *)
Falsy(jumpLabel) == jumpLabel = << >> \/ jumpLabel[1] = ""

\* this.labels?.get(name)
LabelsGet(lbls, name) == IF lbls.null THEN << >> ELSE MapGet(lbls.map, name)

\* a walk that overwrites a label defined before instead of failing
DuplicateLabelIgnored(lbls, name) == FALSE

\* case 'label'
DuplicateLabel(lbls, name) == ~lbls.null /\ MapHas(lbls.map, name)

\* a label bound to the index after the next instruction
BindLabelOffByOne(lbls, name, index) ==
    IF lbls.null THEN lbls
    ELSE [lbls EXCEPT !.map = MapSet(lbls.map, name, index + 1)]

BindLabel(lbls, name, index) ==
    IF lbls.null THEN lbls
    ELSE [lbls EXCEPT !.map = MapSet(lbls.map, name, index)]

\* the data of a statement after the jump label lookup
ResolveJump(item, lbls) ==
    IF ~Falsy(item.jumpLabel) /\ LabelsGet(lbls, item.jumpLabel[1]) # << >>
    THEN LabelsGet(lbls, item.jumpLabel[1])
    ELSE item.data

\* a walk that fails on an unknown label in every pass
NeverDefinedInAnyPass(item, lbls, validate) ==
    /\ ~Falsy(item.jumpLabel)
    /\ LabelsGet(lbls, item.jumpLabel[1]) = << >>

\* a walk that has lost the check of unknown labels
NeverDefinedUnchecked(item, lbls, validate) == FALSE

NeverDefined(item, lbls, validate) ==
    /\ ~Falsy(item.jumpLabel)
    /\ LabelsGet(lbls, item.jumpLabel[1]) = << >>
    /\ validate

\* this.ops.get(line.item.op.toUpperCase())
LookupOp(table, name) == MapGet(table, toUpperCase(name))

\* a register switch that has lost its 'never' case
RegPolicyErrorAlwaysOnly(op, item) ==
    CASE op.reg = "always" /\ item.reg = << >> -> << "MustSpecifyRegister" >>
      [] OTHER -> << >>

\* switch (op.reg)
RegPolicyError(op, item) ==
    CASE op.reg = "always" /\ item.reg = << >> -> << "MustSpecifyRegister" >>
      [] op.reg = "never" /\ item.reg # << >> -> << "CantSpecifyRegister" >>
      [] OTHER -> << >>

\* switch (op.data): the errors
DataPolicyError(op, data) ==
    CASE op.data = "address" /\ data = << >> -> << "RequiresAddress" >>
      [] op.data = "binary" /\ data = << >> -> << "RequiresBinary" >>
      [] OTHER -> << >>

\* a warning that does not look at the unreachable flag
WarnsHardCodedAlways(op, item, isUnreachable) ==
    op.data = "address" /\ Falsy(item.jumpLabel)

\* switch (op.data): the call of emitWarning
WarnsHardCoded(op, item, isUnreachable) ==
    op.data = "address" /\ Falsy(item.jumpLabel) /\ ~isUnreachable

\* the labels bound to the next instruction, in the Map's order
RECURSIVE LabelComment(_, _)
LabelComment(entries, target) ==
    IF entries = << >> THEN << >>
    ELSE (IF Head(entries).val = target THEN << Head(entries).key >> ELSE << >>)
         \o LabelComment(Tail(entries), target)

\* (line.comment ?? '') + ... + `(Assembly: ${labelComment}${line.uncommentedLine})`
Comment(pub, lbls, target, lineIndex) ==
    [pub |-> IF pub = << >> THEN << >> ELSE pub[1],
     labels |-> IF lbls.null THEN << >> ELSE LabelComment(lbls.map, target),
     line |-> lineIndex]

\* a word that takes the register and the data whatever the descriptor says
OutWordFlagsIgnored(o, item, data, comment) ==
    Instruction(o.opcode, item.reg = << "R1" >>,
                IF data = << >> THEN 0 ELSE data[1], comment)

\* for (const out of op.output) instructions.push(new Instruction(...))
OutWord(o, item, data, comment) ==
    Instruction(o.opcode,
                IF o.useRegister THEN item.reg = << "R1" >> ELSE FALSE,
                IF o.useData THEN (IF data = << >> THEN 0 ELSE data[1]) ELSE 0,
                comment)

\* the words of a statement pushed last descriptor first
EmitWordsReversed(op, item, data, comment) ==
    [j \in 1..Len(op.output) |->
        OutWord(op.output[Len(op.output) + 1 - j], item, data, comment)]

EmitWords(op, item, data, comment) ==
    [j \in 1..Len(op.output) |-> OutWord(op.output[j], item, data, comment)]

RECURSIVE FirstWordError(_)
FirstWordError(words) ==
    IF words = << >> THEN << >>
    ELSE IF InstructionError(Head(words).opcode, Head(words).data) # << >>
         THEN InstructionError(Head(words).opcode, Head(words).data)
    ELSE FirstWordError(Tail(words))

\* an @no_default_ops that removes nothing
KeepDefaults(table, defaults) == table

\* an @no_default_ops that removes every entry filed under a default's name,
\* whoever defined it
RECURSIVE RemoveByName(_, _)
RemoveByName(table, defaults) ==
    IF defaults = << >> THEN table
    ELSE RemoveByName(MapDelete(table, toUpperCase(Head(defaults).op)),
                      Tail(defaults))

\* case 'attribute': @no_default_ops
RECURSIVE RemoveDefaults(_, _)
RemoveDefaults(table, defaults) ==
    IF defaults = << >> THEN table
    ELSE RemoveDefaults(
            IF MapGet(table, toUpperCase(Head(defaults).op)) = << Head(defaults) >>
            THEN MapDelete(table, toUpperCase(Head(defaults).op))
            ELSE table,
            Tail(defaults))

\* case 'attribute': @define
DefineKey(op) == op.op

ApplyAttribute(table, item) ==
    LET cleared == IF item.no_default_ops
                   THEN RemoveDefaults(table, sharedOps) ELSE table
    IN  IF item.op # << >>
        THEN MapSet(cleared, DefineKey(item.op[1]), item.op[1])
        ELSE cleared

\* a walk that skips the line it cannot process and goes on
ThrowSwallowed(st, kind, idx) == st

\* an @no_default_ops that empties the array defaultOps itself
DefaultOpsEmptied(shared, parsed) ==
    IF parsed # << >> /\ parsed[1].type = "attribute" /\ parsed[1].no_default_ops
    THEN << >> ELSE shared

\* the array defaultOps after one line of _process: the loop of
\* @no_default_ops reads it and deletes from this.ops, nothing writes it
DefaultOpsAfter(shared, parsed) == shared

Throw(st, kind, idx) == [st EXCEPT !.err = << [kind |-> kind, line |-> idx] >>]

ProcessStatement(st, idx, validate) ==
    LET item == st.lines[idx][1]
        data == ResolveJump(item, st.labels)
        st1  == [st EXCEPT !.lines[idx] = << [item EXCEPT !.data = data] >>]
        found == LookupOp(st.ops, item.op)
        op   == found[1]
        warn == validate /\ RegPolicyError(op, item) = << >>
                /\ DataPolicyError(op, data) = << >>
                /\ WarnsHardCoded(op, item, st.unreachable)
        st2  == IF warn
                THEN [st1 EXCEPT !.warnings = Append(@, idx - 1)] ELSE st1
        words == EmitWords(op, item, data,
                           Comment(PublicComment(src[idx]), st.labels,
                                   Len(st.instructions), idx))
    IN  IF NeverDefined(item, st.labels, validate)
        THEN Throw(st1, "NeverDefined", idx)
        ELSE IF found = << >> THEN Throw(st1, "UnknownOperation", idx)
        ELSE IF validate /\ RegPolicyError(op, item) # << >>
        THEN Throw(st1, RegPolicyError(op, item)[1], idx)
        ELSE IF validate /\ DataPolicyError(op, data) # << >>
        THEN Throw(st1, DataPolicyError(op, data)[1], idx)
        ELSE IF FirstWordError(words) # << >>
        THEN Throw(st2, FirstWordError(words)[1], idx)
        ELSE [st2 EXCEPT !.instructions = @ \o words,
                         !.unreachable = IF op.alwaysBranches THEN TRUE ELSE @]

\* a label case that collects the label whatever options.resolveLabels says
ProcessLabelInEveryPass(st, idx, resolveLabels) ==
    IF DuplicateLabel(st.labels, st.lines[idx][1].name)
    THEN Throw([st EXCEPT !.unreachable = FALSE], "DefinedMultipleTimes", idx)
    ELSE [st EXCEPT !.unreachable = FALSE,
                    !.labels = BindLabel(@, st.lines[idx][1].name,
                                         Len(st.instructions))]

ProcessLabel(st, idx, resolveLabels) ==
    LET name == st.lines[idx][1].name
        st1  == [st EXCEPT !.unreachable = FALSE]
    IN  IF ~resolveLabels THEN st1
        ELSE IF DuplicateLabel(st.labels, name)
        THEN Throw(st1, "DefinedMultipleTimes", idx)
        ELSE [st1 EXCEPT !.labels = BindLabel(@, name, Len(st.instructions))]

ProcessLine(st, idx, resolveLabels, validate) ==
    IF st.lines[idx] = << >> THEN st
    ELSE CASE st.lines[idx][1].type = "label" ->
                ProcessLabel(st, idx, resolveLabels)
           [] st.lines[idx][1].type = "statement" ->
                ProcessStatement(st, idx, validate)
           [] OTHER ->
                [st EXCEPT !.ops = ApplyAttribute(@, st.lines[idx][1])]

-----------------------------------------------------------------------------
(* assemble()                                                              *)
NullLabels == [null |-> TRUE, map |-> << >>]
NewLabels == [null |-> FALSE, map |-> << >>]

Programs(alphabet) == UNION {[1..n -> alphabet] : n \in 1..MaxLines}

\* the locals of assemble() and the caller's list of warnings at a call
AtCall ==
    /\ pc = "parseAttributes"
    /\ i = 1
    /\ attrLines = << >>
    /\ attrOps = << >>
    /\ supportedOps = << >>
    /\ lines = << >>
    /\ ops = << >>
    /\ labels = NullLabels
    /\ instructions = << >>
    /\ unreachable = FALSE
    /\ warnings = << >>
    /\ out = << >>
    /\ error = << >>

\* the state at the first call of assemble(), on one of the given files
InitOn(files) ==
    /\ src \in files
    /\ AtCall
    /\ sharedOps = defaultOps
    /\ pending = << >>
    /\ returned = << >>

InitWith(alphabet) == InitOn(Programs(alphabet))

Fail(phase, kind, idx) ==
    /\ pc' = "failed"
    /\ error' = << [phase |-> phase, kind |-> kind, line |-> idx] >>

\* Program.parse(content, {parseItemTypes: {attribute: true}}); setOps(defaultOps)
ParseAttributes ==
    /\ pc = "parseAttributes"
    /\ IF FirstSyntaxError(src, TRUE, << >>, 1) # 0
       THEN /\ Fail("parseAttributes", "SyntaxError",
                    FirstSyntaxError(src, TRUE, << >>, 1))
            /\ UNCHANGED <<attrLines, attrOps, i>>
       ELSE /\ attrLines' = ParsedItems(src, TRUE, << >>, "attrs")
            /\ attrOps' = setOps(sharedOps)
            /\ pc' = "loadDefinedOps"
            /\ i' = 1
            /\ UNCHANGED error
    /\ UNCHANGED <<src, supportedOps, lines, ops, labels, instructions,
                   unreachable, warnings, out, sharedOps, pending, returned>>

\* the walk's state for the attributes program and for prog
AttrWalk ==
    [ops |-> attrOps, labels |-> NullLabels, lines |-> attrLines,
     instructions |-> instructions, unreachable |-> unreachable,
     warnings |-> warnings, err |-> << >>]

ProgWalk ==
    [ops |-> ops, labels |-> labels, lines |-> lines,
     instructions |-> instructions, unreachable |-> unreachable,
     warnings |-> warnings, err |-> << >>]

\* attributes.loadDefinedOps(): one line of its _process
LoadDefinedOpsStep ==
    /\ pc = "loadDefinedOps"
    /\ i <= Len(attrLines)
    /\ LET st == ProcessLine(AttrWalk, i, FALSE, FALSE)
       IN  /\ attrOps' = st.ops
           /\ attrLines' = st.lines
           /\ instructions' = st.instructions
           /\ unreachable' = st.unreachable
           /\ warnings' = st.warnings
           /\ IF st.err # << >>
              THEN Fail("loadDefinedOps", st.err[1].kind, i) /\ UNCHANGED i
              ELSE i' = i + 1 /\ UNCHANGED <<pc, error>>
    /\ sharedOps' = DefaultOpsAfter(sharedOps, attrLines[i])
    /\ UNCHANGED <<src, supportedOps, lines, ops, labels, out, pending, returned>>

\* supportedOps; Program.parse(content, {supportedOps}); prog.setOps;
\* prog.resolveLabels() up to its call of _process
ParseProgram ==
    /\ pc = "loadDefinedOps"
    /\ i > Len(attrLines)
    /\ supportedOps' = MapValues(attrOps)
    /\ IF FirstSyntaxError(src, FALSE, MapValues(attrOps), 1) # 0
       THEN /\ Fail("parseProgram", "SyntaxError",
                    FirstSyntaxError(src, FALSE, MapValues(attrOps), 1))
            /\ UNCHANGED <<lines, ops, labels, i, instructions, unreachable>>
       ELSE /\ lines' = ParsedItems(src, FALSE, MapValues(attrOps), "prog")
            /\ ops' = setOps(MapValues(attrOps))
            /\ labels' = NewLabels
            /\ pc' = "resolveLabels"
            /\ i' = 1
            /\ instructions' = << >>
            /\ unreachable' = FALSE
            /\ UNCHANGED error
    /\ UNCHANGED <<src, attrLines, attrOps, warnings, out, sharedOps, pending,
                   returned>>

ProgStep(phase, resolveLabels, validate) ==
    LET st == ProcessLine(ProgWalk, i, resolveLabels, validate)
    IN  /\ ops' = st.ops
        /\ labels' = st.labels
        /\ lines' = st.lines
        /\ instructions' = st.instructions
        /\ unreachable' = st.unreachable
        /\ warnings' = st.warnings
        /\ sharedOps' = DefaultOpsAfter(sharedOps, lines[i])
        /\ IF st.err # << >>
           THEN Fail(phase, st.err[1].kind, i) /\ UNCHANGED i
           ELSE i' = i + 1 /\ UNCHANGED <<pc, error>>

\* prog.resolveLabels(): one line of its _process
ResolveLabelsStep ==
    /\ pc = "resolveLabels"
    /\ i <= Len(lines)
    /\ ProgStep("resolveLabels", TRUE, FALSE)
    /\ UNCHANGED <<src, attrLines, attrOps, supportedOps, out, pending, returned>>

\* prog.emit(options) up to its call of _process
EmitStart ==
    /\ pc = "resolveLabels"
    /\ i > Len(lines)
    /\ IF labels.null
       THEN Fail("emit", "GenerateLabelsFirst", 0) /\ UNCHANGED <<i, instructions, unreachable>>
       ELSE /\ pc' = "emit"
            /\ i' = 1
            /\ instructions' = << >>
            /\ unreachable' = FALSE
            /\ UNCHANGED error
    /\ UNCHANGED <<src, attrLines, attrOps, supportedOps, lines, ops, labels,
                   warnings, out, sharedOps, pending, returned>>

\* prog.emit(options): one line of its _process
EmitStep ==
    /\ pc = "emit"
    /\ i <= Len(lines)
    /\ ProgStep("emit", FALSE, TRUE)
    /\ UNCHANGED <<src, attrLines, attrOps, supportedOps, out, pending, returned>>

\* the padding loop of emit()
FillerLine == [hex |-> << "0", "0", "0", "0" >>, comment |-> << >>]

Text(instrs) ==
    [j \in 1..Len(instrs) |->
        [hex |-> InstructionToString(instrs[j]).hex,
         comment |-> << InstructionToString(instrs[j]).comment >>]]

Padding(count) ==
    [j \in 1..(IF count < ImageSize THEN ImageSize - count ELSE 0) |-> FillerLine]

EmitFinish ==
    /\ pc = "emit"
    /\ i > Len(lines)
    /\ out' = Text(instructions) \o Padding(Len(instructions))
    /\ pc' = "done"
    /\ UNCHANGED <<src, i, attrLines, attrOps, supportedOps, lines, ops, labels,
                   instructions, unreachable, warnings, error, sharedOps,
                   pending, returned>>

Next ==
    \/ ParseAttributes
    \/ LoadDefinedOpsStep
    \/ ParseProgram
    \/ ResolveLabelsStep
    \/ EmitStart
    \/ EmitStep
    \/ EmitFinish

-----------------------------------------------------------------------------
(* Spec: files of statements of the default operations, labels, and        *)
(* @define lines whose output opcodes are negative or too large.           *)
Ones(n) == [j \in 1..n |-> "1"]

ImageLines ==
    { Lbl("x"),
      Stmt("B", << >>, << "x" >>, << >>),
      Stmt("B", << >>, << >>, << "-", "1" >>),
      Stmt("ADD", << "R1" >>, << >>, << "1", "0", "1" >>),
      Stmt("WRITE", << "R0" >>, << >>, Ones(8)),
      Define("NEG", "never", "none", FALSE, << DefOut(-1, FALSE, FALSE) >>),
      Stmt("NEG", << >>, << >>, << >>),
      Define("HI", "never", "none", FALSE, << DefOut(16, FALSE, FALSE) >>),
      Stmt("HI", << >>, << >>, << >>) }

Init == InitWith(ImageLines)

Spec == Init /\ [][Next]_vars

(* SpecLong: files whose statements expand to many words.                  *)
\* an output list long enough for two statements to overflow the image
BigOutput == [j \in 1..33 |-> DefOut(1, FALSE, FALSE)]

LongLines ==
    { Lbl("x"),
      Stmt("B", << >>, << "x" >>, << >>),
      Stmt("ADD", << "R1" >>, << >>, << "1", "0", "1" >>),
      Stmt("WRITE", << "R0" >>, << >>, << "1" >>),
      Define("BIG", "never", "none", FALSE, BigOutput),
      Stmt("BIG", << >>, << >>, << >>) }

InitLong == InitWith(LongLines)

SpecLong == InitLong /\ [][Next]_vars

-----------------------------------------------------------------------------
(* The image.                                                              *)
HexDigitSet == {HexDigits[j] : j \in 1..Len(HexDigits)}

\* the line matches ^[0-9a-f]{4};.*$ : the text before the ';' is four hex digits
MatchesImageLine(l) ==
    /\ Len(l.hex) = 4
    /\ \A j \in 1..Len(l.hex) : l.hex[j] \in HexDigitSet

\* C1: a returned image has exactly 64 lines, each four lowercase hex
\* digits, a semicolon and the comment.
C1_ImageShape ==
    pc = "done" =>
        /\ Len(out) = ImageSize
        /\ \A j \in 1..Len(out) : MatchesImageLine(out[j])

\* C2: every instruction of a returned image has its opcode in 0..15 and
\* its data field in 0..127; a value outside them makes the assembly fail.
C2_FieldRanges ==
    pc = "done" =>
        \A j \in 1..Len(instructions) :
            /\ instructions[j].opcode \in 0..MaxOpcode
            /\ instructions[j].data \in 0..MaxData

-----------------------------------------------------------------------------
(* SpecDirectives: files that (re)define an operation, also under a name   *)
(* written in another letter case.                                         *)
DirectiveLines ==
    { Lbl("x"),
      Stmt("B", << >>, << "x" >>, << >>),
      Stmt("FOO", << >>, << >>, << >>),
      Define("FOO", "never", "none", FALSE,
             << DefOut(1, FALSE, FALSE), DefOut(2, FALSE, FALSE) >>),
      Define("Foo", "never", "none", FALSE, << DefOut(1, FALSE, FALSE) >>),
      NoDefaultOps }

InitDirectives == InitWith(DirectiveLines)

SpecDirectives == InitDirectives /\ [][Next]_vars

\* the lines of the file that define the label
LabelLinesOf(name) ==
    {k \in 1..Len(src) : src[k].type = "label" /\ src[k].name = name}

\* the number of words of the image that come from lines before line k
WordsBefore(k) ==
    Cardinality({j \in 1..Len(instructions) : instructions[j].comment.line < k})

\* C3: in a returned image, the index the Label Map holds for a label is
\* the number of words emitted for the lines before the label's line.
C3_LabelIndexIsPosition ==
    pc = "done" =>
        \A e \in 1..Len(labels.map) :
            \A k \in LabelLinesOf(labels.map[e].key) :
                labels.map[e].val = WordsBefore(k)

\* an operation without the identity of its object
Definition(found) ==
    IF found = << >> THEN << >>
    ELSE << [op |-> toUpperCase(found[1].op), reg |-> found[1].reg,
             data |-> found[1].data,
             alwaysBranches |-> found[1].alwaysBranches,
             output |-> found[1].output] >>

\* the table obtained from the directives-only pass over the whole file
EffectiveTable == setOps(supportedOps)

\* C4: during the Encoding pass every statement of the file resolves to the
\* definition it has in the effective table of the directives-only pass.
C4_OneEffectiveTable ==
    pc = "emit" =>
        \A k \in 1..Len(src) :
            src[k].type = "statement" =>
                Definition(LookupOp(ops, src[k].op))
                    = Definition(LookupOp(EffectiveTable, src[k].op))

-----------------------------------------------------------------------------
(* SpecLabels: files of labels and of statements that refer to them.       *)
LabelLines ==
    { Blank,
      Lbl("x"),
      Lbl("y"),
      Stmt("B", << >>, << "x" >>, << >>),
      Stmt("BZ", << "R1" >>, << "y" >>, << >>),
      Stmt("WRITE", << "R0" >>, << >>, << "1" >>),
      Stmt("NOP", << >>, << >>, << >>) }

InitLabels == InitWith(LabelLines)

SpecLabels == InitLabels /\ [][Next]_vars

\* the statements of the file that refer to a label defined on a later line
ForwardReferences ==
    {k \in 1..Len(src) :
        /\ src[k].type = "statement"
        /\ src[k].jump # << >>
        /\ \E d \in LabelLinesOf(src[k].jump[1]) : d > k}

\* the statements that refer to a label
References ==
    {k \in 1..Len(src) : src[k].type = "statement" /\ src[k].jump # << >>}

\* C5: in a returned image every word of a statement that refers to a
\* label, defined on a later line or on an earlier one, carries the label's
\* instruction index as its data field; and the CollectingLabels pass never
\* fails because a label is not known yet.
C5_ForwardReference ==
    /\ pc = "done" =>
          \A k \in References :
              \A j \in 1..Len(instructions) :
                  instructions[j].comment.line = k =>
                      << instructions[j].data >>
                          = LabelsGet(labels, src[k].jump[1])
    /\ (pc = "failed" /\ error[1].phase = "resolveLabels") =>
          error[1].kind # "NeverDefined"

\* a returned image with a forward reference to a label whose index is not 0
C5_Witness ==
    /\ pc = "done"
    /\ \E k \in ForwardReferences :
          \E j \in 1..Len(instructions) :
              /\ instructions[j].comment.line = k
              /\ instructions[j].data > 0
              /\ << instructions[j].data >> = LabelsGet(labels, src[k].jump[1])

\* the second definitions: label lines whose name an earlier line defines
SecondDefinitions ==
    {k \in 1..Len(src) :
        /\ src[k].type = "label"
        /\ \E d \in LabelLinesOf(src[k].name) : d < k}

FirstSecondDefinition ==
    CHOOSE k \in SecondDefinitions : \A d \in SecondDefinitions : k <= d

\* C6: a file that defines a label twice never yields an image: the
\* CollectingLabels walk never gets past the second definition, the Encoding
\* pass never starts, and the run fails with 'defined multiple times' at the
\* second definition unless a line before it has failed.
C6_DuplicateLabelFails ==
    SecondDefinitions # {} =>
        /\ pc \notin {"emit", "done"}
        /\ pc = "resolveLabels" => i <= FirstSecondDefinition
        /\ pc = "failed" =>
              \/ /\ error[1].phase = "resolveLabels"
                 /\ error[1].kind = "DefinedMultipleTimes"
                 /\ error[1].line = FirstSecondDefinition
              \/ /\ error[1].phase = "resolveLabels"
                 /\ error[1].line < FirstSecondDefinition
              \/ error[1].phase \in {"parseAttributes", "loadDefinedOps",
                                     "parseProgram"}

\* a file whose two definitions are separated by a statement has failed
\* with 'defined multiple times'
C6_Witness ==
    /\ pc = "failed"
    /\ error[1].kind = "DefinedMultipleTimes"
    /\ \E k \in SecondDefinitions :
          /\ error[1].line = k
          /\ \E m \in 1..(k - 1) : src[m].type = "statement"

-----------------------------------------------------------------------------
(* SpecData and SpecReg: statements that follow or break the data policy   *)
(* and the register policy of the default operations.                      *)
DataLines ==
    { Lbl("x"),
      Stmt("ADD", << "R0" >>, << >>, << "1", "0", "1" >>),
      Stmt("ADD", << "R0" >>, << >>, << >>),
      Stmt("B", << >>, << >>, << >>),
      Stmt("B", << >>, << "x" >>, << >>),
      Stmt("IN", << "R1" >>, << >>, << >>),
      Stmt("IN", << "R1" >>, << >>, << "5" >>),
      Stmt("IN", << "R0" >>, << "x" >>, << >>) }

InitData == InitWith(DataLines)

SpecData == InitData /\ [][Next]_vars

RegLines ==
    { Stmt("ADD", << "R0" >>, << >>, << "1", "0", "1" >>),
      Stmt("ADD", << >>, << >>, << "1", "0", "1" >>),
      Stmt("B", << >>, << >>, << "5" >>),
      Stmt("B", << "R0" >>, << >>, << "5" >>),
      Stmt("WRITE", << >>, << >>, << "1" >>),
      Stmt("WRITE", << "R1" >>, << >>, << "1" >>),
      Stmt("IN", << "R1" >>, << >>, << >>) }

InitReg == InitWith(RegLines)

SpecReg == InitReg /\ [][Next]_vars

\* the Encoding pass is at a statement whose operation is in the table and
\* whose label reference, if any, is defined
AtEncodedStatement ==
    /\ pc = "emit"
    /\ i <= Len(lines)
    /\ lines[i] # << >>
    /\ lines[i][1].type = "statement"
    /\ LookupOp(ops, lines[i][1].op) # << >>
    /\ ~NeverDefined(lines[i][1], labels, TRUE)

MatchedOp == LookupOp(ops, lines[i][1].op)[1]

\* the statement has a numeric value: a literal or a resolved label
HasValue == ResolveJump(lines[i][1], labels) # << >>

Rejected(kind) == pc' = "failed" /\ error'[1].kind = kind /\ error'[1].line = i

\* C7: the Encoding pass enforces the data policy of the matched operation:
\* address and binary reject a statement without a numeric value, none
\* rejects a statement with a numeric value or a label reference.
C7_DataPolicy ==
    [][ AtEncodedStatement /\ RegPolicyError(MatchedOp, lines[i][1]) = << >> =>
          /\ (MatchedOp.data = "address" /\ ~HasValue) => Rejected("RequiresAddress")
          /\ (MatchedOp.data = "binary" /\ ~HasValue) => Rejected("RequiresBinary")
          /\ (MatchedOp.data = "none"
                /\ (HasValue \/ lines[i][1].jumpLabel # << >>)) => pc' = "failed"
      ]_vars

\* C8: the Encoding pass enforces the register policy of the matched
\* operation: always rejects a statement without a register, never rejects
\* one with a register, optional accepts both, and a statement that is
\* accepted satisfies the policy.
C8_RegisterPolicy ==
    [][ AtEncodedStatement =>
          /\ (MatchedOp.reg = "always" /\ lines[i][1].reg = << >>)
                => Rejected("MustSpecifyRegister")
          /\ (MatchedOp.reg = "never" /\ lines[i][1].reg # << >>)
                => Rejected("CantSpecifyRegister")
          /\ MatchedOp.reg = "optional" =>
                (pc' = "failed" =>
                    error'[1].kind \notin {"MustSpecifyRegister",
                                           "CantSpecifyRegister"})
          /\ pc' # "failed" =>
                /\ MatchedOp.reg = "always" => lines[i][1].reg # << >>
                /\ MatchedOp.reg = "never" => lines[i][1].reg = << >>
                /\ Len(instructions') = Len(instructions) + Len(MatchedOp.output)
      ]_vars

\* a statement with a register has been rejected by a reg=never operation,
\* after a reg=optional statement without a register was accepted
C8_Witness ==
    /\ pc = "failed"
    /\ error[1].phase = "emit"
    /\ error[1].kind = "CantSpecifyRegister"
    /\ \E k \in 1..(error[1].line - 1) :
          /\ src[k].op = "WRITE"
          /\ src[k].reg = << >>
          /\ \E j \in 1..Len(instructions) : instructions[j].comment.line = k

-----------------------------------------------------------------------------
(* SpecWarn: hard coded and labelled branches, with and without an         *)
(* unconditional jump before them.                                         *)
WarnLines ==
    { Lbl("x"),
      Stmt("B", << >>, << >>, << "5" >>),
      Stmt("B", << >>, << "x" >>, << >>),
      Stmt("BZ", << "R0" >>, << >>, << "7" >>),
      Stmt("ADD", << "R0" >>, << >>, << "1" >>),
      Stmt("B", << >>, << >>, << "2", "0", "0" >>),
      Stmt("B", << "R0" >>, << >>, << "5" >>) }

InitWarn == InitWith(WarnLines)

SpecWarn == InitWarn /\ [][Next]_vars

\* the operation a statement line of the file resolves to
OpOfLine(k) == LookupOp(ops, src[k].op)[1]

\* an always-branching statement precedes line k with no label line between
DeadAt(k) ==
    \E m \in 1..(k - 1) :
        /\ src[m].type = "statement"
        /\ OpOfLine(m).alwaysBranches
        /\ \A d \in (m + 1)..(k - 1) : src[d].type # "label"

\* line k is a statement of an address operation with a numeric literal
\* instead of a label reference, in reachable code
HardCodedBranch(k) ==
    /\ src[k].type = "statement"
    /\ OpOfLine(k).data = "address"
    /\ src[k].jump = << >>
    /\ src[k].text # << >>
    /\ ~DeadAt(k)

\* the zero-based indexes of the hard coded branches among lines 1..n
RECURSIVE ExpectedWarnings(_)
ExpectedWarnings(n) ==
    IF n = 0 THEN << >>
    ELSE ExpectedWarnings(n - 1)
         \o (IF HardCodedBranch(n) THEN << n - 1 >> ELSE << >>)

\* C9: the warning callback is invoked only by the Encoding pass, once for
\* every statement it walks that is a hard coded branch in reachable code,
\* with the zero-based line index, and for no other line.
C9_Warnings ==
    /\ pc \in {"parseAttributes", "loadDefinedOps", "resolveLabels"}
          => warnings = << >>
    /\ (pc = "failed" /\ error[1].phase # "emit") => warnings = << >>
    /\ pc \in {"emit", "done"} => warnings = ExpectedWarnings(i - 1)
    /\ (pc = "failed" /\ error[1].phase = "emit") =>
          \/ warnings = ExpectedWarnings(error[1].line - 1)
          \/ /\ warnings = ExpectedWarnings(error[1].line)
             /\ error[1].kind \in {"DataBits", "OpcodeBits"}

\* `B 5` directly followed by a hard coded branch, then a label and a third
\* hard coded branch: warnings for the first and the third only
C9_Witness ==
    /\ pc = "done"
    /\ Len(src) = 4
    /\ src[1] = Stmt("B", << >>, << >>, << "5" >>)
    /\ src[2] = Stmt("BZ", << "R0" >>, << >>, << "7" >>)
    /\ src[3] = Lbl("x")
    /\ src[4] = Stmt("BZ", << "R0" >>, << >>, << "7" >>)
    /\ warnings = << 0, 3 >>

-----------------------------------------------------------------------------
(* SpecNoDefault: files with @no_default_ops, @define CALL and statements  *)
(* of CALL and of default operations.                                      *)
DefineCall ==
    Define("CALL", "never", "address", FALSE, << DefOut(0, FALSE, FALSE) >>)

NoDefaultLines ==
    { NoDefaultOps,
      DefineCall,
      Lbl("x"),
      Stmt("CALL", << >>, << "x" >>, << >>),
      Stmt("ADD", << "R0" >>, << >>, << "1" >>),
      Stmt("B", << >>, << "x" >>, << >>),
      Stmt("WRITE", << >>, << >>, << "1" >>) }

InitNoDefault == InitWith(NoDefaultLines)

SpecNoDefault == InitNoDefault /\ [][Next]_vars

\* the file has @no_default_ops and, on a later line, @define CALL
ClearedThenCall ==
    \E a, b \in 1..Len(src) :
        a < b /\ src[a] = NoDefaultOps /\ src[b] = DefineCall

\* the statements that name another operation than CALL
OtherStatements ==
    {k \in 1..Len(src) :
        src[k].type = "statement" /\ toUpperCase(src[k].op) # "CALL"}

FirstOtherStatement ==
    CHOOSE k \in OtherStatements : \A d \in OtherStatements : k <= d

\* C10: in a file with @no_default_ops followed by @define CALL ... => 0,
\* a file of `CALL :x` statements with :x defined once assembles, each CALL
\* encoded by the user-defined operation (opcode 0, data the index of x);
\* a statement of any other operation stops the run at its line with
\* 'Unknown operation' (unless an earlier line has failed).
C10_OnlyCall ==
    ClearedThenCall =>
        /\ (OtherStatements = {} /\ Cardinality(LabelLinesOf("x")) = 1)
              => pc # "failed"
        /\ pc = "done" =>
              /\ OtherStatements = {}
              /\ LookupOp(ops, "CALL") # << >>
              /\ LookupOp(ops, "CALL")[1].inst[1] # "default"
              /\ \A j \in 1..Len(instructions) :
                    /\ instructions[j].opcode = 0
                    /\ ~instructions[j].r1
                    /\ << instructions[j].data >> = LabelsGet(labels, "x")
              /\ Len(instructions)
                    = Cardinality({k \in 1..Len(src) : src[k].type = "statement"})
        /\ OtherStatements # {} =>
              /\ pc \notin {"emit", "done"}
              /\ pc = "resolveLabels" => i <= FirstOtherStatement
              /\ pc = "failed" =>
                    /\ error[1].phase = "resolveLabels"
                    /\ \/ /\ error[1].kind = "UnknownOperation"
                          /\ error[1].line = FirstOtherStatement
                       \/ error[1].line < FirstOtherStatement

\* the file @no_default_ops / @define CALL / CALL :x / :x has assembled
C10_Witness ==
    /\ pc = "done"
    /\ src = << NoDefaultOps, DefineCall,
                Stmt("CALL", << >>, << "x" >>, << >>), Lbl("x") >>
    /\ Len(instructions) = 1
    /\ instructions[1].data = 1

-----------------------------------------------------------------------------
(* SpecClear: files with @no_default_ops and @define lines of CALL (the    *)
(* name of a default, in upper case) and of add (in lower case), before    *)
(* and after the @no_default_ops line.                                     *)
DefineLowerAdd ==
    Define("add", "always", "address", FALSE, << DefOut(4, TRUE, TRUE) >>)

ClearLines ==
    { NoDefaultOps,
      DefineCall,
      DefineLowerAdd,
      Lbl("x"),
      Stmt("CALL", << >>, << "x" >>, << >>),
      Stmt("ADD", << "R0" >>, << >>, << "1" >>) }

InitClear == InitWith(ClearLines)

SpecClear == InitClear /\ [][Next]_vars

IsDefaultInstance(op) == op.inst[1] = "default"

\* the entries of a table that are not instances of the default set
RECURSIVE NonDefaults(_)
NonDefaults(table) ==
    IF table = << >> THEN << >>
    ELSE (IF IsDefaultInstance(Head(table).val) THEN << >> ELSE << Head(table) >>)
         \o NonDefaults(Tail(table))

\* the walk is about to process an @no_default_ops line
AtNoDefaultOps(walked) ==
    /\ i <= Len(walked)
    /\ walked[i] # << >>
    /\ walked[i][1].type = "attribute"
    /\ walked[i][1].no_default_ops

DefineLinesOf(content) == {k \in 1..Len(content) : content[k].type = "define"}

HasNoDefaultOps(content) == \E k \in 1..Len(content) : content[k] = NoDefaultOps

\* the table of the directives-only pass of a file with @no_default_ops:
\* every @define line, before or after, has left an operation of the user
\* under its name, and nothing of the default set is left
ClearedTable ==
    (pc \in {"resolveLabels", "emit", "done"} /\ HasNoDefaultOps(src)) =>
        /\ \A k \in DefineLinesOf(src) :
              /\ MapHas(attrOps, src[k].op)
              /\ ~IsDefaultInstance(MapGet(attrOps, src[k].op)[1])
        /\ \A e \in 1..Len(attrOps) : ~IsDefaultInstance(attrOps[e].val)
        /\ \A e \in 1..Len(ops) : ~IsDefaultInstance(ops[e].val)

\* an @no_default_ops step removes the default instances and nothing else
ClearStep ==
    /\ (pc = "loadDefinedOps" /\ AtNoDefaultOps(attrLines) /\ pc' = pc)
          => attrOps' = NonDefaults(attrOps)
    /\ (pc \in {"resolveLabels", "emit"} /\ AtNoDefaultOps(lines) /\ pc' = pc)
          => ops' = NonDefaults(ops)

\* C11: @no_default_ops removes exactly the entries that are still the
\* instances of the default set: an operation the user defined under the name
\* of a default is kept, whether its @define is before or after the
\* @no_default_ops line, every default not redefined is removed and no
\* operation of the user is removed.
C11_NoDefaultOpsRemovesDefaultsOnly == []ClearedTable /\ [][ClearStep]_vars

\* `@define CALL` then `@no_default_ops`: the step leaves the user's CALL alone
C11_Witness ==
    /\ pc = "loadDefinedOps"
    /\ i = 3
    /\ src[1] = DefineCall
    /\ src[2] = NoDefaultOps
    /\ Len(attrOps) = 1
    /\ attrOps[1].key = "CALL"
    /\ attrOps[1].val.inst = << "attrs", 1 >>

-----------------------------------------------------------------------------
(* SpecBits: files of ADD statements with binary literals of 7 and of 8    *)
(* digits, with and without leading zeros.                                 *)
LeadingZeros == << "0", "0", "0", "0", "0", "0", "0", "1" >>

HighBit == << "1", "0", "0", "0", "0", "0", "0", "0" >>

BitsLines ==
    { Stmt("ADD", << "R0" >>, << >>, Ones(7)),
      Stmt("ADD", << "R1" >>, << >>, Ones(8)),
      Stmt("ADD", << "R0" >>, << >>, LeadingZeros),
      Stmt("ADD", << "R0" >>, << >>, HighBit),
      Lbl("x"),
      Stmt("B", << >>, << "x" >>, << >>) }

InitBits == InitWith(BitsLines)

SpecBits == InitBits /\ [][Next]_vars

AddLinesOf(content) ==
    {k \in 1..Len(content) : content[k].type = "statement" /\ content[k].op = "ADD"}

\* the number a string of binary digits denotes
RECURSIVE BitsValue(_)
BitsValue(text) ==
    IF text = << >> THEN 0
    ELSE 2 * BitsValue(SubSeq(text, 1, Len(text) - 1))
         + (IF text[Len(text)] = "1" THEN 1 ELSE 0)

\* the run has failed with the bit-width error at line k, or before line k
FailsWithDataBitsAt(k) ==
    /\ pc # "done"
    /\ out = << >>
    /\ pc \in {"resolveLabels", "emit"} => i <= k
    /\ pc = "failed" =>
          /\ error[1].line <= k
          /\ error[1].line = k => error[1].kind = "DataBits"

\* C12 as stated: an ADD statement whose binary literal has more than 7
\* binary digits fails with the bit-width error.
C12_LongLiteralFails ==
    \A k \in AddLinesOf(src) : Len(src[k].text) > 7 => FailsWithDataBitsAt(k)

\* C12, amended: an ADD statement whose binary literal denotes a number above
\* 127 fails with the bit-width error, and the data field of every word an
\* ADD statement emits is the number its literal denotes, whatever the
\* number of digits.
C12_WideValueFails ==
    \A k \in AddLinesOf(src) :
        /\ BitsValue(src[k].text) > MaxData => FailsWithDataBitsAt(k)
        /\ pc = "done" =>
              /\ \E j \in 1..Len(instructions) : instructions[j].comment.line = k
              /\ \A j \in 1..Len(instructions) :
                    instructions[j].comment.line = k =>
                        instructions[j].data = BitsValue(src[k].text)

\* `ADD R0 00000001` goes through, `ADD R1 11111111` on the next line fails
C12_Witness ==
    /\ pc = "failed"
    /\ src = << Stmt("ADD", << "R0" >>, << >>, LeadingZeros),
                Stmt("ADD", << "R1" >>, << >>, Ones(8)) >>
    /\ error = << [phase |-> "resolveLabels", kind |-> "DataBits", line |-> 2] >>

-----------------------------------------------------------------------------
\* the statements that refer to a label no line of the file defines
UndefinedReferences ==
    {k \in References : LabelLinesOf(src[k].jump[1]) = {}}

\* the CollectingLabels walk has passed line k, the Encoding walk has not
BetweenPassesAt(k) ==
    \/ pc = "resolveLabels" /\ i > k
    \/ pc = "emit" /\ i <= k

\* C13: a statement that refers to a label defined nowhere in the file makes
\* the run fail with 'never defined' in the Encoding pass (unless an earlier
\* error has ended the run); the CollectingLabels pass raises no such error
\* and leaves the statement's data unset.
C13_UndefinedLabel ==
    \A k \in UndefinedReferences :
        /\ pc # "done"
        /\ out = << >>
        /\ pc = "emit" => i <= k
        /\ (pc = "failed" /\ error[1].phase = "emit") =>
              /\ error[1].line <= k
              /\ error[1].line = k => error[1].kind = "NeverDefined"
        /\ (pc = "failed" /\ error[1].phase = "resolveLabels") =>
              ~(error[1].line = k /\ error[1].kind = "NeverDefined")
        /\ BetweenPassesAt(k) => lines[k][1].data = << >>

\* `BZ R1 :y` without a line `:y`, between two lines that assemble
C13_Witness ==
    /\ pc = "failed"
    /\ src = << Lbl("x"), Stmt("BZ", << "R1" >>, << "y" >>, << >>),
                Stmt("B", << >>, << "x" >>, << >>) >>
    /\ error = << [phase |-> "emit", kind |-> "NeverDefined", line |-> 2] >>

-----------------------------------------------------------------------------
(* SpecExample: the example program and the files obtained from it by      *)
(* leaving lines out.                                                      *)
Example ==
    << Lbl("main"),
       Stmt("LD", << "R0" >>, << >>, << "0", "0", "0", "1", "0", "1", "0" >>),
       Stmt("SUB", << "R0" >>, << >>, << "0", "0", "0", "0", "0", "0", "1" >>),
       Stmt("BZ", << "R0" >>, << "Finished" >>, << >>),
       Stmt("B", << >>, << "main" >>, << >>),
       Blank,
       Lbl("Finished") >>

\* the files made of some of the lines of a file, in their order
RECURSIVE Excerpts(_)
Excerpts(file) ==
    IF file = << >> THEN {<< >>}
    ELSE Excerpts(Tail(file))
         \cup {<< Head(file) >> \o rest : rest \in Excerpts(Tail(file))}

ExampleFiles == Excerpts(Example) \ {<< >>}

InitExample == InitOn(ExampleFiles)

SpecExample == InitExample /\ [][Next]_vars

Filler == [hex |-> << "0", "0", "0", "0" >>, comment |-> << >>]

\* lines a..b of the image are words of statements
EncodedLines(a, b) ==
    \A j \in a..b : j <= Len(out) /\ out[j].comment # << >>

\* lines a..b of the image are filler lines
FillerLines(a, b) ==
    \A j \in a..b : j <= Len(out) /\ out[j] = Filler

\* C14 as stated: the example program assembles to 5 encoded instructions
\* followed by 59 filler lines, with :Finished bound to index 4.
C14_ExampleFiveWords ==
    (src = Example /\ pc = "done") =>
        /\ Len(out) = ImageSize
        /\ EncodedLines(1, 5)
        /\ FillerLines(6, ImageSize)
        /\ LabelsGet(labels, "Finished") = << 4 >>

\* C14, amended: the example program assembles to 4 encoded instructions
\* (LD, SUB, BZ, B: 0c0a, 0a01, 0404, 0600) followed by 60 filler lines,
\* with :Finished bound to index 4 and :main to index 0.
C14_ExampleFourWords ==
    src = Example =>
        /\ pc # "failed"
        /\ pc = "done" =>
              /\ Len(out) = ImageSize
              /\ EncodedLines(1, 4)
              /\ out[1].hex = << "0", "c", "0", "a" >>
              /\ out[2].hex = << "0", "a", "0", "1" >>
              /\ out[3].hex = << "0", "4", "0", "4" >>
              /\ out[4].hex = << "0", "6", "0", "0" >>
              /\ FillerLines(5, ImageSize)
              /\ LabelsGet(labels, "Finished") = << 4 >>
              /\ LabelsGet(labels, "main") = << 0 >>
              /\ warnings = << >>

\* the example program has been assembled
C14_Witness ==
    /\ src = Example
    /\ pc = "done"
    /\ Len(instructions) = 4

-----------------------------------------------------------------------------
(* SpecEncode: the Instruction words of every opcode in 0..MaxOpcode, both *)
(* register bits and every data value in 0..MaxData.  A file defines an    *)
(* operation that emits one word per opcode and has one statement of it.   *)
EveryOpcode == [k \in 1..(MaxOpcode + 1) |-> DefOut(k - 1, FALSE, FALSE)]

DefineEveryOpcode == Define("OP", "optional", "address", FALSE, EveryOpcode)

\* the decimal text of a number
RECURSIVE DecText(_)
DecText(n) ==
    IF n < 10 THEN << DecDigits[n + 1] >>
    ELSE DecText(n \div 10) \o << DecDigits[(n % 10) + 1] >>

EncodeFiles ==
    { << DefineEveryOpcode, Stmt("OP", << r >>, << >>, DecText(d)) >> :
        r \in {"R0", "R1"}, d \in 0..MaxData }

InitEncode == InitOn(EncodeFiles)

SpecEncode == InitEncode /\ [][Next]_vars

\* the number a hex digit stands for, lower case only
HexDigitValue(c) ==
    CASE c = "0" -> 0 [] c = "1" -> 1 [] c = "2" -> 2 [] c = "3" -> 3
      [] c = "4" -> 4 [] c = "5" -> 5 [] c = "6" -> 6 [] c = "7" -> 7
      [] c = "8" -> 8 [] c = "9" -> 9 [] c = "a" -> 10 [] c = "b" -> 11
      [] c = "c" -> 12 [] c = "d" -> 13 [] c = "e" -> 14 [] c = "f" -> 15
      [] OTHER -> -1

RECURSIVE HexValue(_)
HexValue(text) ==
    IF text = << >> THEN 0
    ELSE 16 * HexValue(SubSeq(text, 1, Len(text) - 1))
         + HexDigitValue(text[Len(text)])

\* the fields the statement of the file asks for in its word number j
FieldOpcode(j) == src[1].output[j].opcode
FieldRegister == IF src[2].reg = << "R1" >> THEN 1 ELSE 0
FieldData == CHOOSE d \in 0..MaxData : DecText(d) = src[2].text

\* C15: the word of an instruction is opcode*512 + registerBit*256 + data,
\* for every opcode in 0..15, register bit and data in 0..127, and its line
\* is exactly four lower case hex digits, zero padded, then the comment.
C15_WordLayout ==
    pc = "done" =>
        \A j \in 1..(MaxOpcode + 1) :
            /\ Len(out[j].hex) = 4
            /\ \A c \in 1..4 : HexDigitValue(out[j].hex[c]) >= 0
            /\ HexValue(out[j].hex)
                  = FieldOpcode(j) * 512 + FieldRegister * 256 + FieldData
            /\ out[j].comment = << instructions[j].comment >>

\* opcode 15, register R1, data 127: the largest word, 1f7f
C15_Witness ==
    /\ pc = "done"
    /\ src[2] = Stmt("OP", << "R1" >>, << >>, << "1", "2", "7" >>)
    /\ out[16].hex = << "1", "f", "7", "f" >>

\* C16: decoding the word of an image line (opcode = word div 512, register
\* = (word div 256) mod 2, data = word mod 256) gives back the three fields
\* the word was made of, so words of different fields differ.
C16_RoundTrip ==
    pc = "done" =>
        /\ \A j \in 1..(MaxOpcode + 1) :
              /\ HexValue(out[j].hex) \div 512 = FieldOpcode(j)
              /\ (HexValue(out[j].hex) \div 256) % 2 = FieldRegister
              /\ HexValue(out[j].hex) % 256 = FieldData
        /\ \A j, k \in 1..(MaxOpcode + 1) :
              j # k => out[j].hex # out[k].hex

\* opcode 9, register R1, data 100: the word 1364 decodes to 9, 1, 100
C16_Witness ==
    /\ pc = "done"
    /\ src[2] = Stmt("OP", << "R1" >>, << >>, << "1", "0", "0" >>)
    /\ out[10].hex = << "1", "3", "6", "4" >>
    /\ instructions[10].opcode = 9
    /\ instructions[10].data = 100

-----------------------------------------------------------------------------
(* SpecAbort: files with a line of every way to fail (a label with a       *)
(* space, a label defined twice, an unknown label, a register on B, a      *)
(* value of more than 7 bits) and with statements that only warn.          *)
AbortLines ==
    { Lbl("x"),
      Lbl("a b"),
      Stmt("B", << >>, << >>, << "5" >>),
      Stmt("B", << >>, << "z" >>, << >>),
      Stmt("B", << "R0" >>, << >>, << "5" >>),
      Stmt("B", << >>, << >>, << "2", "0", "0" >>),
      Stmt("WRITE", << "R0" >>, << >>, << "1" >>) }

InitAbort == InitWith(AbortLines)

SpecAbort == InitAbort /\ [][Next]_vars

StatementLinesOf(content) ==
    {k \in 1..Len(content) : content[k].type = "statement"}

\* the lines of the image that come from source line k
ImageLinesOf(k) ==
    {j \in 1..Len(out) : out[j].comment # << >> /\ out[j].comment[1].line = k}

\* no image without success, no success without the whole image
AllOrNothing ==
    /\ pc # "done" => out = << >>
    /\ pc = "failed" => error # << >>
    /\ pc = "done" =>
          /\ error = << >>
          /\ Len(out) >= ImageSize
          /\ \A k \in StatementLinesOf(src) :
                Cardinality(ImageLinesOf(k)) = Len(OpOfLine(k).output)

\* the step that reports a warning does not end the run
WarningAdvisory == warnings' # warnings => pc' # "failed"

\* C17: a run that fails at any point returns no image, not even a prefix;
\* a run that returns an image returns all the words of all its statements
\* and the padding; a warning never makes a run fail.
C17_AllOrNothing == []AllOrNothing /\ [][WarningAdvisory]_vars

\* a returned image of a file with two warnings
C17_Witness ==
    /\ pc = "done"
    /\ src = << Stmt("B", << >>, << >>, << "5" >>), Lbl("x"),
                Stmt("B", << >>, << >>, << "5" >>),
                Stmt("WRITE", << "R0" >>, << >>, << "1" >>) >>
    /\ warnings = << 0, 2 >>
    /\ Len(out) = ImageSize

-----------------------------------------------------------------------------
(* SpecComments: files of statements with public and secret comments, in   *)
(* both orders, of a comment-only line, an empty line, a label line and an *)
(* @define line.                                                           *)
DefineNop == Define("NOP", "never", "none", FALSE, << DefOut(10, FALSE, FALSE) >>)

CommentLines ==
    { WithTail(Stmt("WRITE", << "R0" >>, << >>, << "1" >>),
               << "//", "p1", "#", "s1" >>),
      WithTail(Stmt("ADD", << "R1" >>, << >>, << "1" >>),
               << "#", "s2", "//", "s3" >>),
      WithTail(Stmt("B", << >>, << "x" >>, << >>),
               << "//", "p1", "//", "p3" >>),
      WithTail(Blank, << "//", "p2", "#", "s4" >>),
      Blank,
      Lbl("x"),
      DefineNop }

InitComments == InitWith(CommentLines)

SpecComments == InitComments /\ [][Next]_vars

\* the number of words the statements before line k expand to
RECURSIVE WordsExpected(_)
WordsExpected(k) ==
    IF k <= 1 THEN 0
    ELSE WordsExpected(k - 1)
         + (IF src[k - 1].type = "statement"
            THEN Len(OpOfLine(k - 1).output) ELSE 0)

\* the opcode field of an image line
OpcodeOfLine(j) == HexValue(out[j].hex) \div 512

\* C19: when the statements expand to n <= 64 words, lines 1..n of the image
\* are the words of the statements in source order, the words of one
\* statement in the order of its output descriptors, lines n+1..64 are
\* `0000;`, and label, directive, empty and comment-only lines have no line.
C19_ImageOrder ==
    (pc = "done" /\ WordsExpected(Len(src) + 1) <= ImageSize) =>
        /\ Len(out) = ImageSize
        /\ \A k \in 1..Len(src) :
              IF src[k].type = "statement"
              THEN \A m \in 1..Len(OpOfLine(k).output) :
                      /\ out[WordsExpected(k) + m].comment # << >>
                      /\ out[WordsExpected(k) + m].comment[1].line = k
                      /\ OpcodeOfLine(WordsExpected(k) + m)
                            = OpOfLine(k).output[m].opcode
              ELSE ImageLinesOf(k) = {}
        /\ FillerLines(WordsExpected(Len(src) + 1) + 1, ImageSize)

\* a label, `B :x`, an empty line and WRITE: words 3, 6, 8 and 61 fillers
C19_Witness ==
    /\ pc = "done"
    /\ Len(src) = 4
    /\ src[1] = Lbl("x")
    /\ src[2].type = "statement" /\ src[2].op = "B"
    /\ src[3] = Blank
    /\ src[4].type = "statement" /\ src[4].op = "WRITE"
    /\ OpcodeOfLine(1) = 3
    /\ OpcodeOfLine(2) = 6
    /\ OpcodeOfLine(3) = 8
    /\ out[4] = Filler

-----------------------------------------------------------------------------
Markers == {"#", "//"}

\* the position of the first marker m in a tail, 0 when there is none
FirstAt(tail, m) ==
    IF \E j \in 1..Len(tail) : tail[j] = m
    THEN CHOOSE j \in 1..Len(tail) :
            tail[j] = m /\ \A h \in 1..(j - 1) : tail[h] # m
    ELSE 0

\* the texts of the private comment of source line k
PrivateTexts(k) ==
    IF FirstAt(TailOf(src[k]), "#") = 0 THEN {}
    ELSE {TailOf(src[k])[j] :
            j \in (FirstAt(TailOf(src[k]), "#") + 1)..Len(TailOf(src[k]))}
         \ Markers

\* what precedes the `#` of source line k
PublicPart(k) ==
    IF FirstAt(TailOf(src[k]), "#") = 0 THEN TailOf(src[k])
    ELSE SubSeq(TailOf(src[k]), 1, FirstAt(TailOf(src[k]), "#") - 1)

\* the public comment of source line k: what follows the first `//` there
PublicText(k) ==
    IF FirstAt(PublicPart(k), "//") = 0 THEN << >>
    ELSE SubSeq(PublicPart(k), FirstAt(PublicPart(k), "//") + 1,
                Len(PublicPart(k)))

\* the texts of an image line after its `;`
CommentTexts(j) ==
    IF out[j].comment = << >> THEN {}
    ELSE {out[j].comment[1].pub[c] : c \in 1..Len(out[j].comment[1].pub)}
         \cup {out[j].comment[1].labels[c] :
                 c \in 1..Len(out[j].comment[1].labels)}

\* C20: no text of a private comment (what follows the first `#` of a line)
\* is in the image, and the public comment of a statement line (what
\* follows `//` in the text before the `#`) is in the comment of every word
\* the statement emits.
C20_Comments ==
    pc = "done" =>
        /\ \A k \in 1..Len(src) : \A j \in 1..Len(out) :
              PrivateTexts(k) \cap CommentTexts(j) = {}
        /\ \A k \in StatementLinesOf(src) :
              /\ ImageLinesOf(k) # {}
              /\ \A j \in ImageLinesOf(k) :
                    out[j].comment[1].pub = PublicText(k)

\* `WRITE R0 1 // p1 # s1`: both words carry p1, none carries s1
C20_Witness ==
    /\ pc = "done"
    /\ TailOf(src[1]) = << "//", "p1", "#", "s1" >>
    /\ src[1].op = "WRITE"
    /\ out[1].comment[1].pub = << "p1" >>
    /\ out[2].comment[1].pub = << "p1" >>
    /\ out[2].comment[1].line = 1

-----------------------------------------------------------------------------
(* SpecCalls: three calls of assemble() in a row, on a text, on another    *)
(* text (or the same), and on the first text again.  The texts have        *)
(* @no_default_ops, an @define of ADD and an ADD statement; some fail.     *)
MaxCallLines == 2

DefineAddAddress ==
    Define("ADD", "always", "address", FALSE, << DefOut(12, FALSE, FALSE) >>)

CallLines ==
    { NoDefaultOps,
      DefineAddAddress,
      Stmt("ADD", << "R0" >>, << >>, << "1", "0" >>) }

CallFiles == UNION {[1..n -> CallLines] : n \in 1..MaxCallLines}

InitCalls ==
    /\ src \in CallFiles
    /\ AtCall
    /\ sharedOps = defaultOps
    /\ pending \in {<< other, src >> : other \in CallFiles}
    /\ returned = << >>

\* what a call gave back: the image or the error, and the warnings
Result == [src |-> src, out |-> out, error |-> error, warnings |-> warnings]

\* the caller calls assemble() again, on the next text
CallAgain ==
    /\ pc \in {"done", "failed"}
    /\ pending # << >>
    /\ returned' = Append(returned, Result)
    /\ src' = Head(pending)
    /\ pending' = Tail(pending)
    /\ pc' = "parseAttributes"
    /\ i' = 1
    /\ attrLines' = << >>
    /\ attrOps' = << >>
    /\ supportedOps' = << >>
    /\ lines' = << >>
    /\ ops' = << >>
    /\ labels' = NullLabels
    /\ instructions' = << >>
    /\ unreachable' = FALSE
    /\ warnings' = << >>
    /\ out' = << >>
    /\ error' = << >>
    /\ UNCHANGED sharedOps

NextCalls == Next \/ CallAgain

SpecCalls == InitCalls /\ [][NextCalls]_vars

\* C18: a call of assemble() gives the image or the error (and the
\* warnings) that every earlier call on the same text gave, whatever texts
\* were assembled in between, failed runs and runs with @define or
\* @no_default_ops included; and the array defaultOps is never altered.
C18_Deterministic ==
    /\ sharedOps = defaultOps
    /\ pc \in {"done", "failed"} =>
          \A r \in 1..Len(returned) :
              returned[r].src = src =>
                  /\ returned[r].out = out
                  /\ returned[r].error = error
                  /\ returned[r].warnings = warnings

\* `ADD R0 10`, then a text with @no_default_ops that fails, then `ADD R0 10`
\* again: the same image as the first time
C18_Witness ==
    /\ pc = "done"
    /\ Len(returned) = 2
    /\ src = << Stmt("ADD", << "R0" >>, << >>, << "1", "0" >>) >>
    /\ returned[1].src = src
    /\ returned[2].src = << NoDefaultOps, src[1] >>
    /\ returned[2].error # << >>
    /\ returned[1].out = out
    /\ out[1].hex = << "0", "8", "0", "2" >>

-----------------------------------------------------------------------------
(* SpecWords: files with statements of the default WRITE, of an operation  *)
(* with no-reg and no-data descriptors and of an operation defined without *)
(* an output list.                                                         *)
DefineTrio ==
    Define("TRIO", "optional", "binary", FALSE,
           << DefOut(1, TRUE, FALSE), DefOut(2, FALSE, TRUE),
              DefOut(3, FALSE, FALSE) >>)

DefineIdle == Define("IDLE", "never", "none", FALSE, << >>)

WordsLines ==
    { Stmt("WRITE", << "R1" >>, << >>, << "1", "0", "1" >>),
      DefineTrio,
      Stmt("TRIO", << "R1" >>, << >>, << "1", "1" >>),
      Stmt("TRIO", << >>, << "x" >>, << >>),
      DefineIdle,
      Stmt("IDLE", << >>, << >>, << >>),
      Lbl("x") }

InitWords == InitWith(WordsLines)

SpecWords == InitWords /\ [][Next]_vars

\* a walk of prog is about to process a statement of a known operation
AtStatementOfKnownOp ==
    /\ pc \in {"resolveLabels", "emit"}
    /\ i <= Len(lines)
    /\ lines[i] # << >>
    /\ lines[i][1].type = "statement"
    /\ LookupOp(ops, lines[i][1].op) # << >>

\* the value of the statement: its label's index, or its literal
ValueOfStatement ==
    IF lines[i][1].jumpLabel # << >>
    THEN LabelsGet(labels, lines[i][1].jumpLabel[1])
    ELSE lines[i][1].data

\* the fields of the word the descriptor o asks for
FieldsOf(o) ==
    [opcode |-> o.opcode,
     r1 |-> o.useRegister /\ lines[i][1].reg = << "R1" >>,
     data |-> IF o.useData /\ ValueOfStatement # << >>
              THEN ValueOfStatement[1] ELSE 0]

FieldsOfWord(w) == [opcode |-> w.opcode, r1 |-> w.r1, data |-> w.data]

\* C21: a statement that is processed without an error adds one word per
\* output descriptor of its operation, in descriptor order; the word has the
\* descriptor's opcode, register bit 1 iff the descriptor takes the register
\* and the statement names R1, and the statement's value as data if the
\* descriptor takes the data, else 0; an operation without output list adds
\* no word.
C21_WordsOfStatement ==
    [][ (AtStatementOfKnownOp /\ pc' = pc) =>
          /\ Len(instructions') = Len(instructions) + Len(MatchedOp.output)
          /\ SubSeq(instructions', 1, Len(instructions)) = instructions
          /\ \A m \in 1..Len(MatchedOp.output) :
                FieldsOfWord(instructions'[Len(instructions) + m])
                    = FieldsOf(MatchedOp.output[m]) ]_vars

\* IDLE emits nothing, `WRITE R1 101` emits opcode 6 with data 5, then
\* opcode 8 with data 0, both with register bit 1
C21_Witness ==
    /\ pc = "done"
    /\ src = << DefineIdle, Stmt("IDLE", << >>, << >>, << >>),
                Stmt("WRITE", << "R1" >>, << >>, << "1", "0", "1" >>) >>
    /\ Len(instructions) = 2
    /\ FieldsOfWord(instructions[1]) = [opcode |-> 6, r1 |-> TRUE, data |-> 5]
    /\ FieldsOfWord(instructions[2]) = [opcode |-> 8, r1 |-> TRUE, data |-> 0]

-----------------------------------------------------------------------------
(* SpecBase: files that redefine ADD with data=address, under the name ADD *)
(* and under the name add, with statements whose literal `10` is two in    *)
(* base 2 and ten in base 10.                                              *)
DefineUpperAdd ==
    Define("ADD", "always", "address", FALSE, << DefOut(4, FALSE, FALSE) >>)

DefineAddInLowerCase ==
    Define("add", "always", "address", FALSE, << DefOut(4, FALSE, FALSE) >>)

BaseLines ==
    { DefineAddInLowerCase,
      DefineUpperAdd,
      Stmt("ADD", << "R0" >>, << >>, << "1", "0" >>),
      Stmt("add", << "R1" >>, << >>, << "1", "0" >>),
      Stmt("B", << >>, << >>, << "1", "0" >>),
      Blank }

InitBase == InitWith(BaseLines)

SpecBase == InitBase /\ [][Next]_vars

\* the number a string of decimal digits denotes
RECURSIVE TenValue(_)
TenValue(text) ==
    IF text = << >> THEN 0
    ELSE 10 * TenValue(SubSeq(text, 1, Len(text) - 1))
         + (CHOOSE d \in 0..9 : DecDigits[d + 1] = text[Len(text)])

\* the Encoding walk is about to encode a statement with a literal
AtEncodedLiteral ==
    /\ pc = "emit"
    /\ i <= Len(lines)
    /\ lines[i] # << >>
    /\ lines[i][1].type = "statement"
    /\ src[i].text # << >>
    /\ LookupOp(ops, lines[i][1].op) # << >>

\* C22: the literal of a statement has been read in base 2 exactly when the
\* operation the statement is validated and encoded with has data=binary,
\* and in base 10 otherwise, also after an @define of a default operation
\* with another data policy or in another letter case.
C22_LiteralBase ==
    AtEncodedLiteral =>
        lines[i][1].data
            = << IF MatchedOp.data = "binary"
                 THEN BitsValue(src[i].text) ELSE TenValue(src[i].text) >>

-----------------------------------------------------------------------------
\* no two entries of the table have names that differ in letter case only
OneEntryPerName(table) ==
    \A a, b \in 1..Len(table) :
        a # b => toUpperCase(table[a].key) # toUpperCase(table[b].key)

\* the walk is about to process an @define line
AtDefine(walked) ==
    /\ i <= Len(walked)
    /\ walked[i] # << >>
    /\ walked[i][1].type = "attribute"
    /\ walked[i][1].op # << >>

\* the table holds the operation of the @define line under its uppercased name
DefinedUppercased(walked, table) ==
    MapGet(table, toUpperCase(walked[i][1].op[1].op)) = << walked[i][1].op[1] >>

DefineStep ==
    /\ (pc = "loadDefinedOps" /\ AtDefine(attrLines) /\ pc' = pc)
          => DefinedUppercased(attrLines, attrOps')
    /\ (pc \in {"resolveLabels", "emit"} /\ AtDefine(lines) /\ pc' = pc)
          => DefinedUppercased(lines, ops')

\* C23: after an @define line is processed, the table maps the uppercased
\* name to the new operation, in the place of what was stored under that
\* name before, and the table never holds two entries whose names differ in
\* letter case only.
C23_UppercasedDefine ==
    [](OneEntryPerName(attrOps) /\ OneEntryPerName(ops)) /\ [][DefineStep]_vars

-----------------------------------------------------------------------------
(* SpecSpaces: files with label lines and label references whose name has  *)
(* a space or a tab inside, next to a plain label and its reference.       *)
SpacesLines ==
    { Lbl("a b"),
      Lbl("a\tb"),
      Stmt("B", << >>, << "a b" >>, << >>),
      Stmt("B", << >>, << "a\tb" >>, << >>),
      Lbl("x"),
      Stmt("B", << >>, << "x" >>, << >>) }

InitSpaces == InitWith(SpacesLines)

SpecSpaces == InitSpaces /\ [][Next]_vars

\* the name has a whitespace character inside
HasWhitespace(name) == name \in {"a b", "a\tb"}

\* the lines that define or refer to a label with whitespace in its name
WhitespaceLabelLines ==
    {k \in 1..Len(src) :
        \/ src[k].type = "label" /\ HasWhitespace(src[k].name)
        \/ /\ src[k].type = "statement"
           /\ src[k].jump # << >>
           /\ HasWhitespace(src[k].jump[1])}

\* C24: a label line or a label reference whose name contains a space or a
\* tab is rejected by the parse with a syntax error at its line (or at an
\* earlier such line), so no walk starts; and no name with whitespace is
\* ever a key of the Label Map.
C24_NoWhitespaceInLabels ==
    /\ \A k \in WhitespaceLabelLines :
          /\ pc \notin {"resolveLabels", "emit", "done"}
          /\ pc = "failed" =>
                /\ error[1].kind = "SyntaxError"
                /\ error[1].line <= k
                /\ error[1].line \in WhitespaceLabelLines
    /\ \A e \in 1..Len(labels.map) : ~HasWhitespace(labels.map[e].key)

-----------------------------------------------------------------------------
(* SpecProtocol: a caller that builds prog as assemble() does and then     *)
(* calls prog.resolveLabels() and prog.emit() in any order, up to MaxCalls *)
(* calls.  returned is the log of the calls: each entry has the method     *)
(* called, the Label Map at the call and what the call before it gave.     *)
MaxCalls == 4

\* the file the protocol is run on, and the files made of its lines
ProtocolFile ==
    << Stmt("FOO", << >>, << >>, << >>),
       Define("FOO", "never", "none", FALSE, << DefOut(1, FALSE, FALSE) >>),
       Lbl("x"),
       Stmt("B", << >>, << "x" >>, << >>),
       Stmt("B", << "R0" >>, << >>, << "5" >>),
       Lbl("x"),
       Define("FOO", "never", "none", FALSE, << DefOut(2, FALSE, FALSE) >>) >>

ProtocolFiles == Excerpts(ProtocolFile) \ {<< >>}

InitProtocol == InitOn(ProtocolFiles)

\* Program.parse(content, {supportedOps}); prog.setOps(supportedOps)
ParseOnly ==
    /\ pc = "loadDefinedOps"
    /\ i > Len(attrLines)
    /\ supportedOps' = MapValues(attrOps)
    /\ IF FirstSyntaxError(src, FALSE, MapValues(attrOps), 1) # 0
       THEN /\ Fail("parseProgram", "SyntaxError",
                    FirstSyntaxError(src, FALSE, MapValues(attrOps), 1))
            /\ UNCHANGED <<lines, ops, i>>
       ELSE /\ lines' = ParsedItems(src, FALSE, MapValues(attrOps), "prog")
            /\ ops' = setOps(MapValues(attrOps))
            /\ pc' = "idle"
            /\ i' = 1
            /\ UNCHANGED error
    /\ UNCHANGED <<src, attrLines, attrOps, labels, instructions, unreachable,
                   warnings, out, sharedOps, pending, returned>>

\* prog exists and no method of it is running
CanCall ==
    /\ \/ pc \in {"idle", "done"}
       \/ pc = "failed" /\ error[1].phase \in {"resolveLabels", "emit"}
    /\ Len(returned) < MaxCalls

Called(method) ==
    [call |-> method, labels |-> labels, lastPc |-> pc, lastOut |-> out,
     lastError |-> error]

\* prog.resolveLabels() up to its call of _process
CallResolveLabels ==
    /\ CanCall
    /\ returned' = Append(returned, Called("resolveLabels"))
    /\ out' = << >>
    /\ error' = << >>
    /\ IF ~labels.null
       THEN /\ pc' = "idle"
            /\ UNCHANGED <<labels, i, instructions, unreachable>>
       ELSE /\ labels' = NewLabels
            /\ pc' = "resolveLabels"
            /\ i' = 1
            /\ instructions' = << >>
            /\ unreachable' = FALSE
    /\ UNCHANGED <<src, attrLines, attrOps, supportedOps, lines, ops, warnings,
                   sharedOps, pending>>

\* prog.resolveLabels() returns
ResolveLabelsReturn ==
    /\ pc = "resolveLabels"
    /\ i > Len(lines)
    /\ pc' = "idle"
    /\ UNCHANGED <<src, i, attrLines, attrOps, supportedOps, lines, ops, labels,
                   instructions, unreachable, warnings, out, error, sharedOps,
                   pending, returned>>

\* prog.emit(options) up to its call of _process
CallEmit ==
    /\ CanCall
    /\ returned' = Append(returned, Called("emit"))
    /\ out' = << >>
    /\ warnings' = << >>
    /\ IF labels.null
       THEN /\ pc' = "failed"
            /\ error' = << [phase |-> "emit", kind |-> "GenerateLabelsFirst",
                            line |-> 0] >>
            /\ UNCHANGED <<i, instructions, unreachable>>
       ELSE /\ pc' = "emit"
            /\ i' = 1
            /\ instructions' = << >>
            /\ unreachable' = FALSE
            /\ error' = << >>
    /\ UNCHANGED <<src, attrLines, attrOps, supportedOps, lines, ops, labels,
                   sharedOps, pending>>

NextProtocol ==
    \/ ParseAttributes
    \/ LoadDefinedOpsStep
    \/ ParseOnly
    \/ CallResolveLabels
    \/ ResolveLabelsStep
    \/ ResolveLabelsReturn
    \/ CallEmit
    \/ EmitStep
    \/ EmitFinish

SpecProtocol == InitProtocol /\ [][NextProtocol]_vars


\* the call made by this step, if the step is a call of a method of prog
Calls(method) ==
    /\ Len(returned') = Len(returned) + 1
    /\ returned'[Len(returned')].call = method

\* a call of resolveLabels() threw
ResolveLabelsThrew ==
    \/ pc = "failed" /\ error[1].phase = "resolveLabels"
    \/ \E m \in 1..Len(returned) :
          /\ returned[m].lastPc = "failed"
          /\ returned[m].lastError[1].phase = "resolveLabels"

\* the last two calls were emit(), both with a Label Map, and both are over
TwoEmitsOver ==
    /\ Len(returned) >= 2
    /\ returned[Len(returned)].call = "emit"
    /\ returned[Len(returned) - 1].call = "emit"
    /\ ~returned[Len(returned) - 1].labels.null
    /\ pc \in {"done", "failed"}

EmitEarlyStep ==
    (Calls("emit") /\ labels.null)
        => /\ pc' = "failed"
           /\ error'[1].kind = "GenerateLabelsFirst"
           /\ UNCHANGED <<i, lines, ops, labels, instructions>>

ResolveAgainStep ==
    (Calls("resolveLabels") /\ ~labels.null)
        => /\ pc' = "idle"
           /\ error' = << >>
           /\ UNCHANGED <<i, lines, ops, labels, instructions>>

EmitKeepsLabelsStep ==
    (Calls("emit") \/ pc = "emit") => labels' = labels

EmitRaisesNoDuplicate ==
    (pc = "failed" /\ error[1].phase = "emit")
        => error[1].kind # "DefinedMultipleTimes"

SameTextTwice ==
    (TwoEmitsOver /\ ~ResolveLabelsThrew)
        => /\ returned[Len(returned)].lastPc = pc
           /\ returned[Len(returned)].lastOut = out

====
